---- MODULE Spec2Model ----
(***************************************************************************)
(* A model of src/vector.h: RawMemory<T> (an untyped storage block) and    *)
(* Vector<T> (a dynamic array layered on it).                              *)
(*                                                                         *)
(* Two Vector objects, "a" and "b", live in a heap of storage blocks;     *)
(* SpecRaw adds two RawMemory objects of their own, "r" and "s".           *)
(* Every slot of a block carries the lifetime of the object in it (live)   *)
(* and its value (val).  An operation is one action; the element           *)
(* operations that may throw are counted, and the action's input `fail`    *)
(* names the one that throws (0: none).                                    *)
(***************************************************************************)
EXTENDS Integers, Sequences, FiniteSets, TLC

\* ------------------------------------------------------------------ bounds
\* Largest capacity a block is allowed to reach in Spec.
MaxCap == 4
\* Values a caller passes to PushBack/Insert/Emplace are 1..NumVals.
NumVals == 2
\* Number of block identities of the heap.
MaxBlocks == 5
\* The throwing step is one of the first MaxFail throwable steps of a call.
MaxFail == 4
\* Operations per run of Spec.
MaxOps == 2
\* Largest capacity an object is set up with before the run.
MaxInit == 3
\* Largest capacity a block is allowed to reach in SpecGrow.
GrowCap == 8
\* Largest capacity a RawMemory of its own is constructed with in SpecRaw.
MaxRawCap == 2

\* --------------------------------------------------------- element values
\* T() : the value of a value-initialised element (line 138, 276).
Default == 0
\* The value of an element after std::move took its content.
MovedFrom == -1
\* What an assignment through a destroyed object may leave behind.
Garbage == -2
\* The content of raw memory holding no object.
Indet == -3

Names == {"a", "b"}
\* RawMemory objects that belong to no Vector.
RawNames == {"r", "s"}
\* "tmp" is the temporary Vector(rhs) of the copy assignment.
Objects == Names \cup {"tmp"}
Values == 1..NumVals
Blocks == 1..MaxBlocks
\* T* buffer_ = nullptr (line 96)
Null == 0

VARIABLES
    traits,   \* the element type T: [copyable, nothrow_move]
    vec,      \* the two Vector objects: [built, data_ : [buffer_, capacity_], size_]
    raw,      \* the RawMemory objects that belong to no Vector, kept as vec is
    mem,      \* the heap: mem[id] is the tuple of slots of block id, << >> when not allocated
    last,     \* the operation that led to this state, its inputs and its outcome
    fresh,    \* fresh[x]: x was default-constructed and has only had completed PushBacks since
    pushed,   \* pushed[x]: the values of those PushBacks, in order
    clean,    \* TRUE while every operation so far has completed (none threw)
    copied,   \* the objects that a completed copy construction created
    nops      \* operations performed

vars == <<traits, vec, raw, mem, last, fresh, pushed, clean, copied, nops>>

\* ------------------------------------------------------------ the machine
\* The state an operation works on while it runs:
\*   traits, vec, mem   as the variables
\*   ub         the lifetime faults the call has committed
\*   cnt        the cnt-th throwable step from here throws (0: none does)
\*   exc        the exception in flight ("none" when there is none)
\*   garb       the outcome of an assignment through a destroyed object
\*   ret        the value the call returns
\*   stage      the statement of the call that let the exception out ("": not told)
MachineOf(tr, v, h, f, g) ==
    [traits |-> tr, vec |-> v, mem |-> h, ub |-> {}, cnt |-> f, exc |-> "none", garb |-> g,
     ret |-> 0, stage |-> ""]
Machine(f, g) == MachineOf(traits, vec, mem, f, g)

Thrown(m) == m.exc # "none"
MayThrow(m) == m.cnt = 1
Tick(m) == [m EXCEPT !.cnt = IF @ > 0 THEN @ - 1 ELSE 0]
Raise(m, e) == [m EXCEPT !.cnt = 0, !.exc = e]
Fault(m, e) == [m EXCEPT !.ub = @ \cup {e}]
During(m, st) == [m EXCEPT !.stage = st]

RawSlot == [live |-> FALSE, val |-> Indet]
\* Slots are addressed as the code does, from offset 0.
Slot(m, blk, i) == m.mem[blk][i + 1]
SetSlot(m, blk, i, s) == [m EXCEPT !.mem[blk][i + 1] = s]

\* new (p) T(v) : placement construction.
ConstructAt(m, blk, i, v) ==
    LET m1 == IF Slot(m, blk, i).live THEN Fault(m, "construct_over_live") ELSE m
    IN  SetSlot(m1, blk, i, [live |-> TRUE, val |-> v])

\* std::destroy_at(p)
destroy_at(m, blk, i) ==
    LET m1 == IF Slot(m, blk, i).live THEN m ELSE Fault(m, "destroy_dead")
    IN  SetSlot(m1, blk, i, RawSlot)

\* Reading the object in a slot (as the source of a copy or a move).
Use(m, blk, i) == IF Slot(m, blk, i).live THEN m ELSE Fault(m, "use_dead")

\* Writing the object in a slot through its assignment operator.  Assigning
\* through a destroyed object is undefined: the value may or may not arrive.
AssignAt(m, blk, i, v) ==
    IF Slot(m, blk, i).live
    THEN [m EXCEPT !.mem[blk][i + 1].val = v]
    ELSE [Fault(m, "assign_dead") EXCEPT !.mem[blk][i + 1].val = IF m.garb THEN Garbage ELSE v]

\* Taking the content of a slot by std::move leaves it moved-from.
TakeFrom(m, blk, i) == [Use(m, blk, i) EXCEPT !.mem[blk][i + 1].val = MovedFrom]

\* std::is_nothrow_move_constructible_v<T> decides whether T(T&&) may throw;
\* the model lets T's move assignment throw exactly when its move constructor may.
MoveMayThrow(m) == ~m.traits.nothrow_move

RECURSIVE destroy_from(_, _, _, _, _)
destroy_from(m, blk, first, n, k) ==
    IF k >= n THEN m
    ELSE destroy_from(destroy_at(m, blk, first + k), blk, first, n, k + 1)
\* std::destroy_n(first, n)
destroy_n(m, blk, first, n) == destroy_from(m, blk, first, n, 0)

\* ---------------------------------------------- the element operations of T
\* T(const T&) from slot (sb, si) into the raw slot (db, di)
CopyConstruct(m, sb, si, db, di) ==
    ConstructAt(Use(Tick(m), sb, si), db, di, Slot(m, sb, si).val)

\* T(T&&) from slot (sb, si) into the raw slot (db, di)
MoveConstruct(m, sb, si, db, di) ==
    ConstructAt(TakeFrom(IF MoveMayThrow(m) THEN Tick(m) ELSE m, sb, si), db, di, Slot(m, sb, si).val)

\* operator=(const T&) of the object in (db, di)
CopyAssign(m, sb, si, db, di) ==
    AssignAt(Use(Tick(m), sb, si), db, di, Slot(m, sb, si).val)

\* operator=(T&&) of the object in (db, di)
MoveAssign(m, sb, si, db, di) ==
    AssignAt(TakeFrom(IF MoveMayThrow(m) THEN Tick(m) ELSE m, sb, si), db, di, Slot(m, sb, si).val)

\* ------------------------------------------------- <memory> and <algorithm>
\* Each uninitialized_* algorithm destroys what it has constructed when an
\* element constructor throws, and lets the exception through.
RECURSIVE uninit_copy_from(_, _, _, _, _, _, _)
uninit_copy_from(m, sb, so, n, db, dof, k) ==
    IF k >= n THEN m
    ELSE IF MayThrow(m) THEN Raise(destroy_n(m, db, dof, k), "T")
    ELSE uninit_copy_from(CopyConstruct(m, sb, so + k, db, dof + k), sb, so, n, db, dof, k + 1)
\* std::uninitialized_copy_n(first, n, d_first)
uninitialized_copy_n(m, sb, so, n, db, dof) == uninit_copy_from(m, sb, so, n, db, dof, 0)

RECURSIVE uninit_move_from(_, _, _, _, _, _, _)
uninit_move_from(m, sb, so, n, db, dof, k) ==
    IF k >= n THEN m
    ELSE IF MoveMayThrow(m) /\ MayThrow(m) THEN Raise(destroy_n(m, db, dof, k), "T")
    ELSE uninit_move_from(MoveConstruct(m, sb, so + k, db, dof + k), sb, so, n, db, dof, k + 1)
\* std::uninitialized_move_n(first, n, d_first)
uninitialized_move_n(m, sb, so, n, db, dof) == uninit_move_from(m, sb, so, n, db, dof, 0)

RECURSIVE uninit_value_from(_, _, _, _, _)
uninit_value_from(m, db, dof, n, k) ==
    IF k >= n THEN m
    ELSE IF MayThrow(m) THEN Raise(destroy_n(m, db, dof, k), "T")
    ELSE uninit_value_from(ConstructAt(Tick(m), db, dof + k, Default), db, dof, n, k + 1)
\* std::uninitialized_value_construct_n(first, n)
uninitialized_value_construct_n(m, db, dof, n) == uninit_value_from(m, db, dof, n, 0)

RECURSIVE copy_from(_, _, _, _, _, _, _)
copy_from(m, sb, so, n, db, dof, k) ==
    IF k >= n THEN m
    ELSE IF MayThrow(m) THEN Raise(m, "T")
    ELSE copy_from(CopyAssign(m, sb, so + k, db, dof + k), sb, so, n, db, dof, k + 1)
\* std::copy_n(first, n, d_first)
copy_n(m, sb, so, n, db, dof) == copy_from(m, sb, so, n, db, dof, 0)

RECURSIVE move_from(_, _, _, _, _, _)
move_from(m, blk, first, lst, dfirst, k) ==
    IF first + k >= lst THEN m
    ELSE IF MoveMayThrow(m) /\ MayThrow(m) THEN Raise(m, "T")
    ELSE move_from(MoveAssign(m, blk, first + k, blk, dfirst + k), blk, first, lst, dfirst, k + 1)
\* std::move(first, last, d_first), within one block
move_range(m, blk, first, lst, dfirst) == move_from(m, blk, first, lst, dfirst, 0)

RECURSIVE move_backward_from(_, _, _, _, _, _)
move_backward_from(m, blk, first, lst, dlast, k) ==
    IF lst - k <= first THEN m
    ELSE IF MoveMayThrow(m) /\ MayThrow(m) THEN Raise(m, "T")
    ELSE move_backward_from(MoveAssign(m, blk, lst - k - 1, blk, dlast - k - 1),
                            blk, first, lst, dlast, k + 1)
\* std::move_backward(first, last, d_last), within one block
move_backward(m, blk, first, lst, dlast) == move_backward_from(m, blk, first, lst, dlast, 0)

\* ------------------------------------------------------------- RawMemory<T>
FreeIds(m) == {id \in Blocks : m.mem[id] = << >>}
NewId(m) == CHOOSE id \in FreeIds(m) : \A j \in FreeIds(m) : id <= j

\* RawMemory::Allocate(n): operator new may throw; n = 0 allocates nothing.
Allocate(m, n) ==
    IF n = 0 THEN m
    ELSE IF MayThrow(m) THEN Raise(m, "bad_alloc")
    ELSE [Tick(m) EXCEPT !.mem[NewId(m)] = [i \in 1..n |-> RawSlot]]

\* RawMemory(capacity): the object Allocate(m, capacity) leaves, seen from m.
RawMemory(m, capacity) ==
    [buffer_ |-> IF capacity = 0 THEN Null ELSE NewId(m), capacity_ |-> capacity]

\* RawMemory(): T* buffer_ = nullptr; size_t capacity_ = 0;
EmptyRawMemory == [buffer_ |-> Null, capacity_ |-> 0]

\* RawMemory::Deallocate(buf): operator delete; the elements of the block are
\* not destroyed by it.
Deallocate(m, buf) ==
    IF buf = Null THEN m
    ELSE IF m.mem[buf] = << >> THEN Fault(m, "double_free")
    ELSE LET m1 == IF \E i \in 1..Len(m.mem[buf]) : m.mem[buf][i].live
                   THEN Fault(m, "free_live") ELSE m
         IN  [m1 EXCEPT !.mem[buf] = << >>]

\* A RawMemory object x of its own is kept as vec[x] with size_ = 0, in a
\* machine whose vec holds the objects of raw: its buffer_ and capacity_ are
\* vec[x].data_.
\* explicit RawMemory(size_t capacity), as a complete object x
RawMemoryCtor(m, x, capacity) ==
    LET data == RawMemory(m, capacity)
        m1 == Allocate(m, capacity)
    IN  IF Thrown(m1) THEN m1
        ELSE [m1 EXCEPT !.vec[x] = [built |-> TRUE, data_ |-> data, size_ |-> 0]]

\* ~RawMemory()
RawMemoryDtor(m, x) ==
    [Deallocate(m, m.vec[x].data_.buffer_) EXCEPT !.vec[x] = [built |-> FALSE,
                                                          data_ |-> EmptyRawMemory, size_ |-> 0]]

\* RawMemory(RawMemory&& other) noexcept
RawMemoryMove(m, x, other) ==
    [m EXCEPT !.vec[x] = [built |-> TRUE, data_ |-> m.vec[other].data_, size_ |-> 0],
              !.vec[other].data_ = EmptyRawMemory]

\* operator=(RawMemory&&) without line 37 (Deallocate(buffer_)).
RawMemoryMoveAssignmentLeaks(m, x, other) ==
    IF x # other
    THEN [m EXCEPT !.vec[x].data_ = m.vec[other].data_,
                   !.vec[other].data_ = EmptyRawMemory]
    ELSE m

\* RawMemory& operator=(RawMemory&& other) noexcept
RawMemoryMoveAssignment(m, x, other) ==
    IF x # other
    THEN [Deallocate(m, m.vec[x].data_.buffer_)
            EXCEPT !.vec[x].data_ = m.vec[other].data_,
                   !.vec[other].data_ = EmptyRawMemory]
    ELSE m

\* RawMemory::Swap(other)
RawMemorySwap(m, x, other) ==
    [m EXCEPT !.vec[x].data_ = m.vec[other].data_,
              !.vec[other].data_ = m.vec[x].data_]

\* ---------------------------------------------------------------- Vector<T>
Buf(m, x)  == m.vec[x].data_.buffer_
Cap(m, x)  == m.vec[x].data_.capacity_
Size(m, x) == m.vec[x].size_

\* Vector(): RawMemory<T> data_; size_t size_ = 0;
EmptyVector == [built |-> TRUE, data_ |-> EmptyRawMemory, size_ |-> 0]
\* An object whose lifetime has not begun or has ended.
NoVector == [built |-> FALSE, data_ |-> EmptyRawMemory, size_ |-> 0]

\* std::is_nothrow_move_constructible_v<T> || !std::is_copy_constructible_v<T>
UseMove(m) == m.traits.nothrow_move \/ ~m.traits.copyable

\* MoveOrCopyRange that copies whenever T is copy-constructible.
MoveOrCopyRangePrefersCopy(m, sb, so, count, db, dof) ==
    IF ~m.traits.copyable THEN uninitialized_move_n(m, sb, so, count, db, dof)
    ELSE uninitialized_copy_n(m, sb, so, count, db, dof)

\* MoveOrCopyRange that moves whatever T is.
MoveOrCopyRangeAlwaysMove(m, sb, so, count, db, dof) ==
    uninitialized_move_n(m, sb, so, count, db, dof)

MoveOrCopyRange(m, sb, so, count, db, dof) ==
    IF UseMove(m) THEN uninitialized_move_n(m, sb, so, count, db, dof)
    ELSE uninitialized_copy_n(m, sb, so, count, db, dof)

\* At that lets the index one past the last element through.
AtOffByOne(m, x, index) ==
    IF index > Size(m, x) THEN Raise(m, "out_of_range")
    ELSE [m EXCEPT !.ret = IF index < Cap(m, x) THEN Slot(m, Buf(m, x), index).val ELSE Indet]

\* Vector::At(index): throws std::out_of_range when index >= size_, else
\* returns data_[index]; ret is the value of the element referred to.
At(m, x, index) ==
    IF index >= Size(m, x) THEN Raise(m, "out_of_range")
    ELSE [m EXCEPT !.ret = Slot(m, Buf(m, x), index).val]

\* Reserve that grows to at least twice the capacity.
ReserveAtLeastDouble(m, x, new_capacity) ==
    IF new_capacity <= Cap(m, x) THEN m
    ELSE
      LET grown == IF new_capacity < 2 * Cap(m, x) THEN 2 * Cap(m, x) ELSE new_capacity
          new_data == RawMemory(m, grown)
          m1 == Allocate(m, grown)
      IN  IF Thrown(m1) THEN m1
          ELSE
            LET m2 == MoveOrCopyRange(m1, Buf(m, x), 0, Size(m, x), new_data.buffer_, 0)
            IN  IF Thrown(m2) THEN Deallocate(m2, new_data.buffer_)
                ELSE
                  LET m3 == destroy_n(m2, Buf(m, x), 0, Size(m, x))
                      m4 == [m3 EXCEPT !.vec[x].data_ = new_data]
                  IN  Deallocate(m4, Buf(m, x))

\* Vector::Reserve(new_capacity)
Reserve(m, x, new_capacity) ==
    IF new_capacity <= Cap(m, x) THEN m
    ELSE
      LET new_data == RawMemory(m, new_capacity)
          m1 == Allocate(m, new_capacity)
      IN  IF Thrown(m1) THEN m1
          ELSE
            LET m2 == MoveOrCopyRange(m1, Buf(m, x), 0, Size(m, x), new_data.buffer_, 0)
            IN  IF Thrown(m2) THEN Deallocate(m2, new_data.buffer_)
                ELSE
                  LET m3 == destroy_n(m2, Buf(m, x), 0, Size(m, x))
                      m4 == [m3 EXCEPT !.vec[x].data_ = new_data]
                  IN  Deallocate(m4, Buf(m, x))

\* Vector(size_t size)
VectorSized(m, x, size) ==
    LET data == RawMemory(m, size)
        m1 == Allocate(m, size)
    IN  IF Thrown(m1) THEN m1
        ELSE
          LET m2 == uninitialized_value_construct_n(m1, data.buffer_, 0, size)
          IN  IF Thrown(m2) THEN Deallocate(m2, data.buffer_)
              ELSE [m2 EXCEPT !.vec[x] = [built |-> TRUE, data_ |-> data, size_ |-> size]]

\* A memberwise copy: the new object refers to other's block.
VectorCopyShallow(m, x, other) ==
    [m EXCEPT !.vec[x] = [built |-> TRUE, data_ |-> m.vec[other].data_, size_ |-> Size(m, other)]]

\* Vector(const Vector& other)
VectorCopy(m, x, other) ==
    LET data == RawMemory(m, Size(m, other))
        m1 == Allocate(m, Size(m, other))
    IN  IF Thrown(m1) THEN m1
        ELSE
          LET m2 == uninitialized_copy_n(m1, Buf(m, other), 0, Size(m, other), data.buffer_, 0)
          IN  IF Thrown(m2) THEN Deallocate(m2, data.buffer_)
              ELSE [m2 EXCEPT !.vec[x] =
                       [built |-> TRUE, data_ |-> data, size_ |-> Size(m, other)]]

\* VectorMove without line 153 (other.size_ = 0).
VectorMoveKeepsSize(m, x, other) ==
    [m EXCEPT !.vec[x] = [built |-> TRUE, data_ |-> m.vec[other].data_, size_ |-> Size(m, other)],
              !.vec[other].data_ = EmptyRawMemory]

\* Vector(Vector&& other) noexcept, with RawMemory(RawMemory&&)
VectorMove(m, x, other) ==
    [m EXCEPT !.vec[x] = [built |-> TRUE, data_ |-> m.vec[other].data_, size_ |-> Size(m, other)],
              !.vec[other].data_ = EmptyRawMemory,
              !.vec[other].size_ = 0]

\* ~Vector(), then ~RawMemory() of data_
VectorDtor(m, x) ==
    LET m1 == destroy_n(m, Buf(m, x), 0, Size(m, x))
        m2 == Deallocate(m1, Buf(m, x))
    IN  [m2 EXCEPT !.vec[x] = NoVector]

\* Swap without line 196 (std::swap(size_, other.size_)).
SwapDataOnly(m, x, other) ==
    [m EXCEPT !.vec[x].data_ = m.vec[other].data_,
              !.vec[other].data_ = m.vec[x].data_]

\* Vector::Swap(other), with RawMemory::Swap
Swap(m, x, other) ==
    [m EXCEPT !.vec[x].data_ = m.vec[other].data_,
              !.vec[other].data_ = m.vec[x].data_,
              !.vec[x].size_ = m.vec[other].size_,
              !.vec[other].size_ = m.vec[x].size_]

Min(p, q) == IF p <= q THEN p ELSE q

\* The in-place branch of operator=(const Vector&), lines 168-178.  The tail
\* is copied from rhs.begin() + i to begin() + i, and i is 0.
AssignInPlace(m, x, rhs) ==
    LET i == 0
        common_size == Min(Size(m, x), Size(m, rhs))
        m1 == copy_n(m, Buf(m, rhs), 0, common_size, Buf(m, x), 0)
    IN  IF Thrown(m1) THEN m1
        ELSE IF Size(m, x) < Size(m, rhs)
        THEN uninitialized_copy_n(m1, Buf(m, rhs), i, Size(m, rhs) - Size(m, x), Buf(m, x), i)
        ELSE destroy_n(m1, Buf(m, x), Size(m, rhs), Size(m, x) - Size(m, rhs))

\* operator=(const Vector&) that empties *this before it copies rhs.
CopyAssignmentClearFirst(m, x, rhs) ==
    LET m1 == IF x # rhs
              THEN IF Size(m, rhs) > Cap(m, x)
                   THEN LET c1 == [destroy_n(m, Buf(m, x), 0, Size(m, x))
                                     EXCEPT !.vec[x].size_ = 0]
                            t1 == VectorCopy(c1, "tmp", rhs)
                        IN  IF Thrown(t1) THEN t1
                            ELSE VectorDtor(Swap(t1, "tmp", x), "tmp")
                   ELSE AssignInPlace(m, x, rhs)
              ELSE m
    IN  IF Thrown(m1) THEN m1
        ELSE [m1 EXCEPT !.vec[x].size_ = Size(m1, rhs)]

\* Vector::operator=(const Vector& rhs)
CopyAssignment(m, x, rhs) ==
    LET m1 == IF x # rhs
              THEN IF Size(m, rhs) > Cap(m, x)
                   THEN LET t1 == VectorCopy(m, "tmp", rhs)
                        IN  IF Thrown(t1) THEN t1
                            ELSE VectorDtor(Swap(t1, "tmp", x), "tmp")
                   ELSE AssignInPlace(m, x, rhs)
              ELSE m
    IN  IF Thrown(m1) THEN m1
        ELSE [m1 EXCEPT !.vec[x].size_ = Size(m1, rhs)]

\* operator=(Vector&&) that releases what *this holds and takes over rhs,
\* leaving rhs empty.
MoveAssignmentSteals(m, x, rhs) ==
    IF x # rhs THEN VectorMove(VectorDtor(m, x), x, rhs) ELSE m

\* Vector::operator=(Vector&& rhs) noexcept
MoveAssignment(m, x, rhs) == IF x # rhs THEN Swap(m, x, rhs) ELSE m

\* Resize that grows the capacity by the doubling rule of the insertions.
ResizeDoubling(m, x, new_size) ==
    LET doubled == IF new_size < 2 * Cap(m, x) THEN 2 * Cap(m, x) ELSE new_size
        m1 == IF new_size < Size(m, x)
              THEN destroy_n(m, Buf(m, x), new_size, Size(m, x) - new_size)
              ELSE IF new_size > Size(m, x)
              THEN LET r == IF new_size > Cap(m, x) THEN Reserve(m, x, doubled) ELSE m
                   IN  IF Thrown(r) THEN r
                       ELSE uninitialized_value_construct_n(r, Buf(r, x), Size(r, x),
                                                            new_size - Size(r, x))
              ELSE m
    IN  IF Thrown(m1) THEN m1
        ELSE [m1 EXCEPT !.vec[x].size_ = new_size]

\* Vector::Resize(new_size)
Resize(m, x, new_size) ==
    LET m1 == IF new_size < Size(m, x)
              THEN destroy_n(m, Buf(m, x), new_size, Size(m, x) - new_size)
              ELSE IF new_size > Size(m, x)
              THEN LET r == IF new_size > Cap(m, x) THEN Reserve(m, x, new_size) ELSE m
                   IN  IF Thrown(r) THEN r
                       ELSE uninitialized_value_construct_n(r, Buf(r, x), Size(r, x),
                                                            new_size - Size(r, x))
              ELSE m
    IN  IF Thrown(m1) THEN m1
        ELSE [m1 EXCEPT !.vec[x].size_ = new_size]

\* Vector::Clear() noexcept
Clear(m, x) ==
    [destroy_n(m, Buf(m, x), 0, Size(m, x)) EXCEPT !.vec[x].size_ = 0]

\* Vector::PopBack() noexcept
PopBack(m, x) ==
    LET m1 == [m EXCEPT !.vec[x].size_ = @ - 1]
    IN  destroy_at(m1, Buf(m1, x), Size(m1, x))

\* Growth by one slot instead of doubling.
NewCapacityByOne(capacity) == capacity + 1

\* const size_t new_capacity = Capacity() == 0 ? 1 : Capacity() * 2;
NewCapacity(capacity) == IF capacity = 0 THEN 1 ELSE capacity * 2

\* Vector::EmplaceWithReallocation(index, args...)
EmplaceWithReallocation(m, x, index, v) ==
    LET new_capacity == NewCapacity(Cap(m, x))
        new_data == RawMemory(m, new_capacity)
        nb == new_data.buffer_
        m1 == Allocate(m, new_capacity)
    IN  IF Thrown(m1) THEN m1
        ELSE IF MayThrow(m1) THEN Deallocate(Raise(m1, "T"), nb)
        ELSE
          LET m2 == ConstructAt(Tick(m1), nb, index, v)
              m3 == MoveOrCopyRange(m2, Buf(m, x), 0, index, nb, 0)
          IN  IF Thrown(m3)
              THEN Deallocate(Raise(destroy_at(m3, nb, index), "runtime_error"), nb)
              ELSE
                LET m4 == MoveOrCopyRange(m3, Buf(m, x), index, Size(m, x) - index, nb, index + 1)
                IN  IF Thrown(m4)
                    THEN Deallocate(Raise(destroy_n(m4, nb, 0, index + 1), "runtime_error"), nb)
                    ELSE
                      LET m5 == destroy_n(m4, Buf(m, x), 0, Size(m, x))
                          m6 == [m5 EXCEPT !.vec[x].data_ = new_data]
                      IN  Deallocate(m6, Buf(m, x))

\* EmplaceWithoutReallocation with the end-insertion branch alone.
EmplaceWithoutReallocationAtEnd(m, x, index, v) ==
    IF MayThrow(m) THEN Raise(m, "T") ELSE ConstructAt(Tick(m), Buf(m, x), Size(m, x), v)

\* EmplaceWithoutReallocation whose handler does not destroy the trailing slot.
EmplaceWithoutReallocationNoCleanup(m, x, index, v) ==
    LET buf == Buf(m, x)
        size == Size(m, x)
    IN  IF index = size
        THEN IF MayThrow(m) THEN Raise(m, "T") ELSE ConstructAt(Tick(m), buf, size, v)
        ELSE IF MayThrow(m) THEN During(Raise(m, "T"), "temp")
        ELSE
          LET m1 == Tick(m)
          IN  IF MoveMayThrow(m) /\ MayThrow(m1) THEN During(Raise(m1, "T"), "tail")
              ELSE
                LET m2 == MoveConstruct(m1, buf, size - 1, buf, size)
                    m3 == move_backward(m2, buf, index, size - 1, size)
                IN  IF Thrown(m3) THEN During(m3, "shift")
                    ELSE IF MoveMayThrow(m) /\ MayThrow(m3)
                    THEN During(Raise(m3, "T"), "assign")
                    ELSE AssignAt(IF MoveMayThrow(m) THEN Tick(m3) ELSE m3, buf, index, v)

\* Vector::EmplaceWithoutReallocation(index, args...); stage names the
\* statement that threw: temp (line 402), tail (404), shift (408), assign (410).
EmplaceWithoutReallocation(m, x, index, v) ==
    LET buf == Buf(m, x)
        size == Size(m, x)
    IN  IF index = size
        THEN IF MayThrow(m) THEN Raise(m, "T") ELSE ConstructAt(Tick(m), buf, size, v)
        ELSE IF MayThrow(m) THEN During(Raise(m, "T"), "temp")      \* T temp(args...)
        ELSE
          LET m1 == Tick(m)
          IN  IF MoveMayThrow(m) /\ MayThrow(m1) THEN During(Raise(m1, "T"), "tail")
              ELSE
                LET m2 == MoveConstruct(m1, buf, size - 1, buf, size)
                    m3 == move_backward(m2, buf, index, size - 1, size)
                IN  IF Thrown(m3) THEN During(destroy_at(m3, buf, size), "shift")
                    ELSE IF MoveMayThrow(m) /\ MayThrow(m3)
                    THEN During(destroy_at(Raise(m3, "T"), buf, size), "assign")
                    ELSE AssignAt(IF MoveMayThrow(m) THEN Tick(m3) ELSE m3, buf, index, v)

\* Emplace that counts the new element whether or not its insertion failed.
EmplaceCountsAlways(m, x, index, v) ==
    LET m1 == IF Size(m, x) = Cap(m, x)
              THEN EmplaceWithReallocation(m, x, index, v)
              ELSE EmplaceWithoutReallocation(m, x, index, v)
    IN  [m1 EXCEPT !.vec[x].size_ = @ + 1, !.ret = index]

\* Vector::Emplace(pos, args...); Insert(pos, value) and EmplaceBack(args...)
\* forward to it.
Emplace(m, x, index, v) ==
    LET m1 == IF Size(m, x) = Cap(m, x)
              THEN EmplaceWithReallocation(m, x, index, v)
              ELSE EmplaceWithoutReallocation(m, x, index, v)
    IN  IF Thrown(m1) THEN m1
        ELSE [m1 EXCEPT !.vec[x].size_ = @ + 1, !.ret = index]

\* Vector::Erase(pos)
Erase(m, x, index) ==
    LET buf == Buf(m, x)
        m1 == destroy_at(m, buf, index)
        m2 == IF index + 1 # Size(m, x)
              THEN move_range(m1, buf, index + 1, Size(m, x), index)
              ELSE m1
    IN  IF Thrown(m2) THEN m2
        ELSE [m2 EXCEPT !.vec[x].size_ = @ - 1, !.ret = index]

\* ------------------------------------------------------------ the actions
Fails == 0..MaxFail

\* What an action leaves behind: the machine's objects and heap, the record of
\* the call, and the history of the run.  touched: the objects the call may
\* have modified other than by a completed PushBack.  A call with fewer
\* throwable steps than its input names (m.cnt is left above 0) is the call
\* in which none throws, taken once.
Commit(m, op, x, y, pos, val, n, touched, count) ==
    /\ m.cnt = 0
    /\ vec' = m.vec
    /\ mem' = m.mem
    /\ last' = [op |-> op, x |-> x, y |-> y, pos |-> pos, val |-> val, n |-> n,
                exc |-> m.exc, ret |-> m.ret, ub |-> m.ub, stage |-> m.stage]
    /\ clean' = (clean /\ ~Thrown(m))
    /\ copied' = IF op = "Vector(copy)" /\ ~Thrown(m) THEN copied \cup {x}
                 ELSE IF op = "~Vector" THEN copied \ {x}
                 ELSE copied
    /\ nops' = nops + count
    /\ fresh' = [o \in Names |->
                   IF op = "Vector" /\ o = x THEN TRUE
                   ELSE IF o \in touched THEN FALSE ELSE fresh[o]]
    /\ pushed' = [o \in Names |->
                   IF ~fresh'[o] \/ (op = "Vector" /\ o = x) THEN << >>
                   ELSE IF op = "PushBack" /\ o = x THEN Append(pushed[o], val)
                   ELSE pushed[o]]
    /\ UNCHANGED <<traits, raw>>

\* What an operation on the RawMemory objects leaves behind.
RawCommit(m, op, x, y, n) ==
    /\ m.cnt = 0
    /\ raw' = m.vec
    /\ mem' = m.mem
    /\ last' = [op |-> op, x |-> x, y |-> y, pos |-> 0, val |-> 0, n |-> n,
                exc |-> m.exc, ret |-> m.ret, ub |-> m.ub, stage |-> m.stage]
    /\ clean' = (clean /\ ~Thrown(m))
    /\ nops' = nops + 1
    /\ UNCHANGED <<traits, vec, fresh, pushed, copied>>

RawMachine(f) == MachineOf(traits, raw, mem, f, FALSE)

Built(x) == vec[x].built
More == nops < MaxOps

\* x holds a destroyed slot below size_.  Only then, or in an Erase before the
\* last element, can a call assign through a destroyed object, so only then
\* is the outcome g of such an assignment an input of the call.
HoldsDestroyed(x) ==
    \E k \in 0..(vec[x].size_ - 1) : ~mem[vec[x].data_.buffer_][k + 1].live

\* Vector<T> x;
DefaultCtor(x) ==
    /\ More /\ ~Built(x)
    /\ Commit([Machine(0, FALSE) EXCEPT !.vec[x] = EmptyVector],
              "Vector", x, x, 0, 0, 0, {}, 1)

\* Vector<T> x(n);
SizedCtor(x, n, f) ==
    /\ More /\ ~Built(x)
    /\ Commit(VectorSized(Machine(f, FALSE), x, n), "Vector(n)", x, x, 0, 0, n, {x}, 1)

\* Vector<T> x(y);
CopyCtor(x, y, f) ==
    /\ More /\ ~Built(x) /\ Built(y) /\ traits.copyable
    /\ Commit(VectorCopy(Machine(f, FALSE), x, y), "Vector(copy)", x, y, 0, 0, 0, {x}, 1)

\* Vector<T> x(std::move(y));
MoveCtor(x, y) ==
    /\ More /\ ~Built(x) /\ Built(y)
    /\ Commit(VectorMove(Machine(0, FALSE), x, y), "Vector(move)", x, y, 0, 0, 0, {x, y}, 1)

\* The lifetime of x ends.
Dtor(x) ==
    /\ More /\ Built(x)
    /\ Commit(VectorDtor(Machine(0, FALSE), x), "~Vector", x, x, 0, 0, 0, {x}, 1)

\* x = y;  (y may be x itself)
CallCopyAssignment(x, y, f, g) ==
    /\ More /\ Built(x) /\ Built(y) /\ traits.copyable
    /\ g => HoldsDestroyed(x)
    /\ LET m == CopyAssignment(Machine(f, g), x, y)
       IN  /\ g => "assign_dead" \in m.ub
           /\ Commit(m, "CopyAssign", x, y, 0, 0, 0, {x}, 1)

\* x = std::move(y);  (y may be x itself)
CallMoveAssignment(x, y) ==
    /\ More /\ Built(x) /\ Built(y)
    /\ Commit(MoveAssignment(Machine(0, FALSE), x, y), "MoveAssign", x, y, 0, 0, 0, {x, y}, 1)

\* x.Swap(y);
CallSwap(x, y) ==
    /\ More /\ Built(x) /\ Built(y)
    /\ Commit(Swap(Machine(0, FALSE), x, y), "Swap", x, y, 0, 0, 0, {x, y}, 1)

\* x.At(i);
CallAt(x, i) ==
    /\ More /\ Built(x)
    /\ Commit(At(Machine(0, FALSE), x, i), "At", x, x, i, 0, 0, {}, 1)

\* x.Reserve(c);
CallReserve(x, c, f) ==
    /\ More /\ Built(x)
    /\ Commit(Reserve(Machine(f, FALSE), x, c), "Reserve", x, x, 0, 0, c, {x}, 1)

\* x.Resize(n);
CallResize(x, n, f) ==
    /\ More /\ Built(x)
    /\ Commit(Resize(Machine(f, FALSE), x, n), "Resize", x, x, 0, 0, n, {x}, 1)

\* x.Clear();
CallClear(x) ==
    /\ More /\ Built(x)
    /\ Commit(Clear(Machine(0, FALSE), x), "Clear", x, x, 0, 0, 0, {x}, 1)

\* Whether an insertion into x stays within the capacity limit of the model.
Room(x, limit) ==
    vec[x].size_ < vec[x].data_.capacity_ \/ NewCapacity(vec[x].data_.capacity_) <= limit

\* x.PushBack(v); x.EmplaceBack(v);  both are Emplace(end(), v)
PushBackTo(x, v, f, limit, count) ==
    /\ Built(x) /\ Room(x, limit)
    /\ LET m == Emplace(Machine(f, FALSE), x, vec[x].size_, v)
       IN  Commit(m, "PushBack", x, x, vec[x].size_, v, 0, IF Thrown(m) THEN {x} ELSE {}, count)

CallPushBack(x, v, f) == More /\ PushBackTo(x, v, f, MaxCap, 1)

\* x.PopBack();  asserted: size_ > 0
CallPopBack(x) ==
    /\ More /\ Built(x) /\ vec[x].size_ > 0
    /\ Commit(PopBack(Machine(0, FALSE), x), "PopBack", x, x, 0, 0, 0, {x}, 1)

\* x.Emplace(begin() + pos, v); x.Insert(begin() + pos, v);  asserted: pos <= size_
CallEmplace(x, pos, v, f, g) ==
    /\ More /\ Built(x) /\ Room(x, MaxCap) /\ pos <= vec[x].size_
    /\ g => HoldsDestroyed(x)
    /\ LET m == Emplace(Machine(f, g), x, pos, v)
       IN  /\ g => "assign_dead" \in m.ub
           /\ Commit(m, "Emplace", x, x, pos, v, 0, {x}, 1)

\* x.Erase(begin() + pos);  asserted: pos < size_
CallErase(x, pos, f, g) ==
    /\ More /\ Built(x) /\ pos < vec[x].size_
    /\ g => (pos + 1 < vec[x].size_ \/ HoldsDestroyed(x))
    /\ LET m == Erase(Machine(f, g), x, pos)
       IN  /\ g => "assign_dead" \in m.ub
           /\ Commit(m, "Erase", x, x, pos, 0, 0, {x}, 1)

\* RawMemory<T> x(n);
RawCtor(x, n, f) ==
    /\ More /\ ~raw[x].built
    /\ RawCommit(RawMemoryCtor(RawMachine(f), x, n), "RawMemory(n)", x, x, n)

\* RawMemory<T> x(std::move(y));
RawMoveCtor(x, y) ==
    /\ More /\ ~raw[x].built /\ raw[y].built
    /\ RawCommit(RawMemoryMove(RawMachine(0), x, y), "RawMemory(move)", x, y, 0)

\* The lifetime of the RawMemory x ends.
RawDtor(x) ==
    /\ More /\ raw[x].built
    /\ RawCommit(RawMemoryDtor(RawMachine(0), x), "~RawMemory", x, x, 0)

\* x = std::move(y);  (y may be x itself)
RawMoveAssign(x, y) ==
    /\ More /\ raw[x].built /\ raw[y].built
    /\ RawCommit(RawMemoryMoveAssignment(RawMachine(0), x, y), "RawMoveAssign", x, y, 0)

\* x.Swap(y);
RawSwap(x, y) ==
    /\ More /\ raw[x].built /\ raw[y].built
    /\ RawCommit(RawMemorySwap(RawMachine(0), x, y), "RawSwap", x, y, 0)

\* ------------------------------------------------------- the specifications
Traits == [copyable : BOOLEAN, nothrow_move : BOOLEAN]

NoHeap == [id \in Blocks |-> << >>]
NoObjects == [o \in Objects |-> NoVector]
NoRawObjects == [o \in RawNames |-> NoVector]

\* The element PushBack number k (from 0) of the set-up of object x inserts.
SetupValue(x, k) == 1 + ((k + (IF x = "a" THEN 0 ELSE 1)) % NumVals)

RECURSIVE Filled(_, _, _, _)
Filled(m, x, s, k) ==
    IF k >= s THEN m ELSE Filled(Emplace(m, x, k, SetupValue(x, k)), x, s, k + 1)

\* Vector<T> x; x.Reserve(c); then s times x.PushBack(v).  c = -1: x is not
\* constructed yet.
SetUp(m, x, c, s) ==
    IF c < 0 THEN m
    ELSE Filled(Reserve([m EXCEPT !.vec[x] = EmptyVector], x, c), x, s, 0)

\* The shapes <<capacity, size>> the objects start from.
ShapesA == {sh \in (0..MaxInit) \X (0..MaxInit) : sh[2] <= sh[1]}
ShapesB == {<<-1, 0>>} \cup {<<c, c>> : c \in 0..MaxInit}

InitWith(shapesA, shapesB) ==
    /\ \E tr \in Traits, sa \in shapesA, sb \in shapesB :
         LET m0 == MachineOf(tr, NoObjects, NoHeap, 0, FALSE)
             m2 == SetUp(SetUp(m0, "a", sa[1], sa[2]), "b", sb[1], sb[2])
         IN  /\ traits = tr
             /\ vec = m2.vec
             /\ mem = m2.mem
             /\ fresh = [o \in Names |-> IF o = "a" THEN sa = <<0, 0>> ELSE sb = <<0, 0>>]
    /\ raw = NoRawObjects
    /\ pushed = [o \in Names |-> << >>]
    /\ last = [op |-> "init", x |-> "a", y |-> "a", pos |-> 0, val |-> 0, n |-> 0,
               exc |-> "none", ret |-> 0, ub |-> {}, stage |-> ""]
    /\ clean = TRUE
    /\ copied = {}
    /\ nops = 0

Init == InitWith(ShapesA, ShapesB)

Next ==
    \/ \E x \in Names : DefaultCtor(x)
    \/ \E x \in Names, n \in 0..MaxCap, f \in Fails : SizedCtor(x, n, f)
    \/ \E x \in Names, y \in Names, f \in Fails : CopyCtor(x, y, f)
    \/ \E x \in Names, y \in Names : MoveCtor(x, y)
    \/ \E x \in Names : Dtor(x)
    \/ \E x \in Names, y \in Names, f \in Fails, g \in BOOLEAN : CallCopyAssignment(x, y, f, g)
    \/ \E x \in Names, y \in Names : CallMoveAssignment(x, y)
    \/ \E x \in Names, y \in Names : CallSwap(x, y)
    \/ \E x \in Names, i \in 0..MaxCap : CallAt(x, i)
    \/ \E x \in Names, c \in 0..MaxCap, f \in Fails : CallReserve(x, c, f)
    \/ \E x \in Names, n \in 0..MaxCap, f \in Fails : CallResize(x, n, f)
    \/ \E x \in Names : CallClear(x)
    \/ \E x \in Names, v \in Values, f \in Fails : CallPushBack(x, v, f)
    \/ \E x \in Names : CallPopBack(x)
    \/ \E x \in Names, pos \in 0..MaxCap, v \in Values, f \in Fails, g \in BOOLEAN :
         CallEmplace(x, pos, v, f, g)
    \/ \E x \in Names, pos \in 0..MaxCap, f \in Fails, g \in BOOLEAN : CallErase(x, pos, f, g)

Spec == Init /\ [][Next]_vars

\* Growth by end-insertion alone: both objects default-constructed, then
\* PushBack/EmplaceBack on "a" until the capacity limit GrowCap.
InitGrow == InitWith({<<0, 0>>}, {<<0, 0>>})

GrowPushBack(v, f) == PushBackTo("a", v, f, GrowCap, 0)

NextGrow == \E v \in Values, f \in Fails : GrowPushBack(v, f)

SpecGrow == InitGrow /\ [][NextGrow]_vars

\* Vectors together with RawMemory objects of their own, all on one heap.
\* RawMemory<T> x(c);  c = -1: x is not constructed yet.
SetUpRaw(m, x, c) == IF c < 0 THEN m ELSE RawMemoryCtor(m, x, c)

RawShapesA == {<<0, 0>>, <<2, 1>>, <<2, 2>>, <<3, 2>>}
RawShapesB == {<<-1, 0>>, <<1, 1>>}
RawCapsR == {2}
RawCapsS == {-1, 1}

InitRaw ==
    /\ \E tr \in Traits, sa \in RawShapesA, sb \in RawShapesB, cr \in RawCapsR, cs \in RawCapsS :
         LET m0 == MachineOf(tr, NoObjects, NoHeap, 0, FALSE)
             m2 == SetUp(SetUp(m0, "a", sa[1], sa[2]), "b", sb[1], sb[2])
             m4 == SetUpRaw(SetUpRaw([m2 EXCEPT !.vec = NoRawObjects], "r", cr), "s", cs)
         IN  /\ traits = tr
             /\ vec = m2.vec
             /\ raw = m4.vec
             /\ mem = m4.mem
    /\ fresh = [o \in Names |-> FALSE]
    /\ pushed = [o \in Names |-> << >>]
    /\ last = [op |-> "init", x |-> "a", y |-> "a", pos |-> 0, val |-> 0, n |-> 0,
               exc |-> "none", ret |-> 0, ub |-> {}, stage |-> ""]
    /\ clean = TRUE
    /\ copied = {}
    /\ nops = 0

NextRaw ==
    \/ Next
    \/ \E x \in RawNames, n \in 0..MaxRawCap, f \in 0..1 : RawCtor(x, n, f)
    \/ \E x \in RawNames, y \in RawNames : RawMoveCtor(x, y)
    \/ \E x \in RawNames : RawDtor(x)
    \/ \E x \in RawNames, y \in RawNames : RawMoveAssign(x, y)
    \/ \E x \in RawNames, y \in RawNames : RawSwap(x, y)

SpecRaw == InitRaw /\ [][NextRaw]_vars

\* ------------------------------------------------------------ observations
Size_(x) == vec[x].size_
Capacity_(x) == vec[x].data_.capacity_
Buffer_(x) == vec[x].data_.buffer_

\* The element sequence of x, operator[](0) .. operator[](size_ - 1).
Elems(x) == [k \in 1..Size_(x) |-> mem[Buffer_(x)][k].val]

\* Slot k (from 0) of x's storage block holds a constructed element.
Live(x, k) == mem[Buffer_(x)][k + 1].live

\* Exactly the slots [0, size) of x hold a constructed element.
SlotsOK(x) == \A k \in 0..(Capacity_(x) - 1) : Live(x, k) <=> k < Size_(x)

\* The data model of a Vector: a block of capacity_ slots (none when the
\* capacity is 0), size_ <= capacity_, elements exactly in [0, size_).
WellFormed(x) ==
    /\ Built(x)
    /\ Size_(x) <= Capacity_(x)
    /\ (Buffer_(x) = Null) <=> (Capacity_(x) = 0)
    /\ Buffer_(x) # Null => Len(mem[Buffer_(x)]) = Capacity_(x)
    /\ SlotsOK(x)

Allocated == {id \in Blocks : mem[id] # << >>}

Completed == last.exc = "none"

\* ------------------------------------------------------------------ claims

\* C1 (as claimed): after any sequence of completed public operations,
\* exactly the slots [0, size) of every Vector hold a constructed element and
\* every slot in [size, capacity) holds none.
C1_SlotsAfterCompletedOps ==
    clean => \A x \in Names : Built(x) => SlotsOK(x)

\* C2 (as claimed): a copy assignment x = y that completes, on arrays that
\* satisfy the data model, leaves x with y's size and y's elements at every
\* index; in the in-place growing case the capacity of x is unchanged.
C2_CopyAssignCopies ==
    [][\A x \in Names, y \in Names :
         (/\ last'.op = "CopyAssign" /\ last'.x = x /\ last'.y = y /\ last'.exc = "none"
          /\ WellFormed(x) /\ WellFormed(y))
         => /\ Size_(x)' = Size_(y)
            /\ Elems(x)' = Elems(y)
            /\ (Size_(x) < Size_(y) /\ Size_(y) <= Capacity_(x)) => Capacity_(x)' = Capacity_(x)
      ]_vars

\* C3 (as claimed): Erase(i) that completes on an array of size n >= 1 that
\* satisfies the data model leaves size n - 1, the elements before i unchanged,
\* every element after i one index to the left, the capacity unchanged, and
\* returns position i.
C3_EraseRemovesOne ==
    [][\A x \in Names :
         (/\ last'.op = "Erase" /\ last'.x = x /\ last'.exc = "none" /\ WellFormed(x))
         => /\ Size_(x)' = Size_(x) - 1
            /\ \A k \in 1..(Size_(x) - 1) :
                 Elems(x)'[k] = IF k <= last'.pos THEN Elems(x)[k] ELSE Elems(x)[k + 1]
            /\ Capacity_(x)' = Capacity_(x)
            /\ last'.ret = last'.pos
      ]_vars

\* old[0..p) followed by v followed by old[p..n), for a position p from 0.
InsertedAt(old, p, v) ==
    [k \in 1..(Len(old) + 1) |->
        IF k <= p THEN old[k] ELSE IF k = p + 1 THEN v ELSE old[k - 1]]

\* C4: Insert/Emplace(p, v) that completes on an array of size n that
\* satisfies the data model yields old[0..p), v, old[p..n), size n + 1 and
\* returns p; the capacity is unchanged when n < capacity and becomes
\* max(1, 2 * capacity) when n = capacity.
C4_EmplaceInserts ==
    [][\A x \in Names :
         (/\ last'.op \in {"Emplace", "PushBack"} /\ last'.x = x /\ last'.exc = "none"
          /\ WellFormed(x))
         => /\ Size_(x)' = Size_(x) + 1
            /\ Elems(x)' = InsertedAt(Elems(x), last'.pos, last'.val)
            /\ last'.ret = last'.pos
            /\ Capacity_(x)' = IF Size_(x) < Capacity_(x) THEN Capacity_(x)
                               ELSE IF Capacity_(x) = 0 THEN 1 ELSE 2 * Capacity_(x)
      ]_vars

\* C4 witness: a completed insertion in the middle of an array set up with two
\* or more elements (first operation of the run).
C4_Witness ==
    /\ last.op = "Emplace" /\ Completed /\ nops = 1 /\ last.ub = {}
    /\ 0 < last.pos /\ last.pos + 1 < Size_(last.x)

RECURSIVE Pow2Above(_, _)
Pow2Above(p, k) == IF p >= k THEN p ELSE Pow2Above(2 * p, k)
\* The smallest power of two >= k.
Pow2Ceil(k) == Pow2Above(1, k)

\* C5: from a default-constructed array, after K >= 1 consecutive completed
\* PushBack/EmplaceBack calls the size is K, the capacity is the smallest power
\* of two >= K, the elements are the pushed values in order; and no such call
\* lowers the capacity.
C5_GrowthByDoubling ==
    [][/\ (fresh'["a"] /\ Len(pushed'["a"]) >= 1)
          => /\ Size_("a")' = Len(pushed'["a"])
             /\ Capacity_("a")' = Pow2Ceil(Len(pushed'["a"]))
             /\ Elems("a")' = pushed'["a"]
       /\ Capacity_("a")' >= Capacity_("a")
      ]_vars

\* C5 witness: five end-insertions from empty: size 5, capacity 8.
C5_Witness ==
    fresh["a"] /\ Len(pushed["a"]) = 5 /\ Capacity_("a") = 8

\* What a failed reallocating Emplace must leave of x, whatever T is: size,
\* capacity and storage block as before the call, the new block released, and
\* every element constructed in it destroyed exactly once.
ReallocFailureKeeps(x) ==
    /\ vec' = vec
    /\ Allocated' = Allocated
    /\ last'.ub \cap {"destroy_dead", "free_live", "double_free", "construct_over_live"} = {}
    /\ \A k \in 0..(Capacity_(x) - 1) : Live(x, k)' = Live(x, k)

\* A reallocating Emplace/Insert on x in which an element constructor failed.
ReallocFailure(x) ==
    /\ last'.op \in {"Emplace", "PushBack"} /\ last'.x = x
    /\ last'.exc \in {"T", "runtime_error"}
    /\ Size_(x) = Capacity_(x)

\* C6 (as claimed): whenever an element constructor fails in a reallocating
\* Emplace/Insert, the array keeps its size, capacity, storage block and
\* element values, and the new block and its elements are gone.
C6_AsClaimed ==
    [][\A x \in Names :
         ReallocFailure(x) => (ReallocFailureKeeps(x) /\ Elems(x)' = Elems(x))
      ]_vars

\* C6 (amended): as claimed when T is copy-constructible or its move
\* constructor cannot throw.  For a move-only T whose move constructor may
\* throw, size, capacity, storage block and the release of the new block are
\* as claimed, but each element is either unchanged or left moved-from.
C6_ReallocFailure ==
    [][\A x \in Names :
         ReallocFailure(x) =>
           /\ ReallocFailureKeeps(x)
           /\ IF traits.copyable \/ traits.nothrow_move
              THEN Elems(x)' = Elems(x)
              ELSE \A k \in 1..Size_(x) : Elems(x)'[k] \in {Elems(x)[k], MovedFrom}
      ]_vars

\* C6 witness: the transfer failed in a reallocating insertion in the middle
\* of a full array of a copyable T whose move constructor may throw.
C6_Witness ==
    /\ last.op = "Emplace" /\ last.exc = "runtime_error"
    /\ traits.copyable /\ ~traits.nothrow_move
    /\ 0 < last.pos /\ last.pos < Size_(last.x)
    /\ Size_(last.x) = Capacity_(last.x)

\* C7: a copy assignment x = y with y.size > x.capacity that fails leaves x
\* and y exactly as before the call (size, capacity, block, elements), and
\* nothing of the temporary remains: the heap is as before.
C7_StrongGuarantee ==
    [][\A x \in Names, y \in Names :
         (/\ last'.op = "CopyAssign" /\ last'.x = x /\ last'.y = y /\ last'.exc # "none"
          /\ Size_(y) > Capacity_(x))
         => /\ vec' = vec
            /\ mem' = mem
            /\ last'.ub \cap {"destroy_dead", "free_live", "double_free"} = {}
      ]_vars

\* C7 witness: copying the second or a later element of y into the temporary
\* failed, x holding elements of its own.
C7_Witness ==
    /\ last.op = "CopyAssign" /\ last.exc = "T" /\ nops = 1
    /\ Size_(last.y) > Capacity_(last.x) /\ Size_(last.y) >= 2 /\ Size_(last.x) >= 1

\* C8 (as claimed): a copy assignment x = y with y.size <= x.capacity in which
\* an element assignment or copy construction fails leaves x valid:
\* size <= capacity and exactly the slots [0, size) holding an element.
C8_BasicGuarantee ==
    [][\A x \in Names, y \in Names :
         (/\ last'.op = "CopyAssign" /\ last'.x = x /\ last'.y = y /\ last'.exc = "T"
          /\ Size_(y) <= Capacity_(x) /\ WellFormed(x) /\ WellFormed(y))
         => WellFormed(x)'
      ]_vars

\* C9: move construction of x from y leaves y with size 0, capacity 0 and no
\* block, and x with y's former size, capacity and block; the heap, and so
\* every element, is untouched.
C9_MoveConstruction ==
    [][\A x \in Names, y \in Names :
         (last'.op = "Vector(move)" /\ last'.x = x /\ last'.y = y)
         => /\ vec'[y] = EmptyVector
            /\ vec'[x] = [built |-> TRUE, data_ |-> vec[y].data_, size_ |-> vec[y].size_]
            /\ Elems(x)' = Elems(y)
            /\ mem' = mem
            /\ last'.ub = {}
      ]_vars

\* C9 witness: a move construction from an array of two or more elements.
C9_Witness ==
    last.op = "Vector(move)" /\ Size_(last.x) >= 2

\* C10: a move assignment x = move(y) of distinct arrays exchanges their
\* blocks, capacities, sizes and elements and touches no element; a move
\* self-assignment changes nothing.
C10_MoveAssignment ==
    [][\A x \in Names, y \in Names :
         (last'.op = "MoveAssign" /\ last'.x = x /\ last'.y = y)
         => /\ vec'[x] = vec[y]
            /\ vec'[y] = vec[x]
            /\ Elems(x)' = Elems(y)
            /\ Elems(y)' = Elems(x)
            /\ mem' = mem
            /\ last'.ub = {}
      ]_vars

\* C10 witness: a move assignment between two arrays of different sizes,
\* both holding elements.
C10_Witness ==
    /\ last.op = "MoveAssign" /\ last.x # last.y
    /\ Size_(last.x) >= 1 /\ Size_(last.y) >= 1 /\ Size_(last.x) # Size_(last.y)

\* C11 (as claimed): a move, by construction or by assignment x = move(y) of
\* distinct arrays, leaves the source y with size 0 and the destination x
\* holding exactly y's prior elements, also when x held elements before.
C11_AsClaimed ==
    [][\A x \in Names, y \in Names :
         (last'.op \in {"Vector(move)", "MoveAssign"} /\ last'.x = x /\ last'.y = y /\ x # y)
         => /\ Size_(y)' = 0
            /\ Elems(x)' = Elems(y)
      ]_vars

\* C11 (amended): a move construction leaves the source with size 0 and the
\* destination holding the source's prior elements.  A move assignment
\* x = move(y) of distinct arrays leaves x holding y's prior elements and y
\* holding x's prior elements, so y has x's prior size: it is empty exactly
\* when x was empty before the call.
C11_MoveLeavesSource ==
    [][\A x \in Names, y \in Names :
         /\ (last'.op = "Vector(move)" /\ last'.x = x /\ last'.y = y)
            => (Size_(y)' = 0 /\ Elems(x)' = Elems(y))
         /\ (last'.op = "MoveAssign" /\ last'.x = x /\ last'.y = y /\ x # y)
            => /\ Elems(x)' = Elems(y)
               /\ Size_(y)' = Size_(x)
               /\ Elems(y)' = Elems(x)
               /\ (Size_(y)' = 0) <=> (Size_(x) = 0)
      ]_vars

\* C11 witness: a move assignment onto a destination that held elements
\* leaves the source non-empty.
C11_Witness ==
    /\ last.op = "MoveAssign" /\ last.x # last.y /\ nops = 1
    /\ Size_(last.y) >= 2 /\ Size_(last.x) >= 1

\* C12: Reserve(c) on an array that satisfies the data model.  With
\* c <= capacity nothing changes.  With c > capacity, a call that completes
\* makes the capacity exactly c, keeps the size and the elements, destroys
\* every element of the old block and releases the old block; a call in which
\* the element transfer fails keeps the size, the capacity and the block.
C12_Reserve ==
    [][\A x \in Names :
         (last'.op = "Reserve" /\ last'.x = x /\ WellFormed(x))
         => /\ last'.n <= Capacity_(x) => (vec' = vec /\ mem' = mem /\ last'.exc = "none")
            /\ (last'.n > Capacity_(x) /\ last'.exc = "none")
               => /\ Capacity_(x)' = last'.n
                  /\ Size_(x)' = Size_(x)
                  /\ Elems(x)' = Elems(x)
                  /\ Buffer_(x) # Null => mem'[Buffer_(x)] = << >>
                  /\ Buffer_(x)' # Buffer_(x)
                  /\ last'.ub = {}
            /\ (last'.n > Capacity_(x) /\ last'.exc = "T")
               => vec'[x] = vec[x]
      ]_vars

\* C12 witness: a Reserve beyond the capacity of an array of two or more
\* elements completed (first operation of the run).
C12_Witness ==
    /\ last.op = "Reserve" /\ Completed /\ nops = 1
    /\ last.n > MaxInit /\ Capacity_(last.x) = last.n /\ Size_(last.x) >= 2

\* C13: Resize(m) that completes on an array of size n and capacity c that
\* satisfies the data model leaves size m.  If m < n the slots [m, n) hold no
\* element any more, the prefix [0, m) is unchanged and the capacity stays c.
\* If m > n the prefix [0, n) is unchanged, the slots [n, m) hold
\* default-valued elements, and the capacity is c when m <= c and exactly m
\* when m > c.
C13_Resize ==
    [][\A x \in Names :
         (last'.op = "Resize" /\ last'.x = x /\ last'.exc = "none" /\ WellFormed(x))
         => /\ Size_(x)' = last'.n
            /\ last'.ub = {}
            /\ last'.n < Size_(x)
               => /\ \A k \in 1..last'.n : Elems(x)'[k] = Elems(x)[k]
                  /\ \A k \in last'.n..(Size_(x) - 1) : ~Live(x, k)'
                  /\ vec'[x].data_ = vec[x].data_
            /\ last'.n > Size_(x)
               => /\ \A k \in 1..Size_(x) : Elems(x)'[k] = Elems(x)[k]
                  /\ \A k \in (Size_(x) + 1)..last'.n :
                       Elems(x)'[k] = Default /\ Live(x, k - 1)'
                  /\ Capacity_(x)' = IF last'.n <= Capacity_(x) THEN Capacity_(x) ELSE last'.n
      ]_vars

\* C13 witness: a Resize beyond the capacity of an array that held an element
\* completed (first operation of the run): the old element, then defaults.
C13_Witness ==
    /\ last.op = "Resize" /\ Completed /\ nops = 1
    /\ last.n > MaxInit /\ Size_(last.x) = last.n
    /\ Elems(last.x)[1] \in Values /\ Elems(last.x)[last.n] = Default

\* C14: At(i) with i >= size fails with out_of_range and leaves both arrays
\* and the heap (size, capacity, elements) unchanged; At(i) with i < size
\* succeeds and yields the element at index i.
C14_At ==
    [][\A x \in Names :
         (last'.op = "At" /\ last'.x = x)
         => /\ last'.pos >= Size_(x)
               => (last'.exc = "out_of_range" /\ vec' = vec /\ mem' = mem)
            /\ last'.pos < Size_(x)
               => (last'.exc = "none" /\ last'.ret = Elems(x)[last'.pos + 1])
      ]_vars

\* C14 witness: At(size) on an array that holds elements failed.
C14_Witness ==
    /\ last.op = "At" /\ last.exc = "out_of_range"
    /\ last.pos = Size_(last.x) /\ Size_(last.x) >= 1

\* The operations on an array x that are meant to leave every other array
\* alone (a move assignment and Swap exchange the contents of two arrays).
Mutations ==
    {"CopyAssign", "Reserve", "Resize", "Clear", "PushBack", "PopBack", "Emplace", "Erase",
     "At", "~Vector"}

\* C15: a copy construction of x from y that completes gives x the size of y,
\* a capacity of exactly that size, y's elements at every index and a block of
\* its own, and leaves y and y's block unchanged.  From then on an operation
\* on one of the two arrays leaves the size, the capacity, the block and the
\* elements of the other unchanged.
C15_CopyIsIndependent ==
    [][\A x \in Names, y \in Names :
         /\ (last'.op = "Vector(copy)" /\ last'.x = x /\ last'.y = y /\ last'.exc = "none")
            => /\ Size_(x)' = Size_(y)
               /\ Capacity_(x)' = Size_(y)
               /\ Elems(x)' = Elems(y)
               /\ Buffer_(x)' # Null => Buffer_(x)' # Buffer_(y)'
               /\ (Buffer_(x)' = Null) <=> (Size_(y) = 0)
               /\ vec'[y] = vec[y]
               /\ Elems(y)' = Elems(y)
               /\ Buffer_(y) # Null => mem'[Buffer_(y)] = mem[Buffer_(y)]
         /\ (/\ x # y /\ Built(x) /\ Built(y) /\ copied \cap {x, y} # {}
             /\ last'.op \in Mutations /\ last'.x = x)
            => /\ vec'[y] = vec[y]
               /\ Elems(y)' = Elems(y)
               /\ Buffer_(y) # Null => mem'[Buffer_(y)] = mem[Buffer_(y)]
      ]_vars

\* C15 witness: after a copy construction from an array of two or more
\* elements, an element was erased from or inserted into one of the two.
C15_Witness ==
    /\ copied # {} /\ nops = 2 /\ Completed
    /\ last.op \in {"Erase", "Emplace"}
    /\ \A x \in Names : Built(x) /\ Size_(x) >= 1
    /\ Size_("a") # Size_("b")

\* C16: in every reachable state, after completed and after failed
\* operations alike, every Vector has 0 <= size <= capacity.
C16_SizeWithinCapacity ==
    \A x \in Names : Built(x) => (0 <= Size_(x) /\ Size_(x) <= Capacity_(x))

\* C16 witness: an insertion into a full array of two or more elements
\* failed.
C16_Witness ==
    /\ last.op \in {"Emplace", "PushBack"} /\ last.exc # "none"
    /\ Size_(last.x) = Capacity_(last.x) /\ Size_(last.x) >= 2

\* The transfer of x's elements into a new block failed partway: in Reserve
\* an element constructor threw; in a reallocating Emplace/Insert the failure
\* of MoveOrCopyRange is re-signalled as runtime_error.
TransferFailure(x) ==
    /\ last'.x = x
    /\ \/ last'.op = "Reserve" /\ last'.exc = "T"
       \/ last'.op \in {"Emplace", "PushBack"} /\ last'.exc = "runtime_error"

\* C17 (as claimed): whenever the transfer into a new block fails partway in
\* Reserve or in a reallocating insert, no element of the original array has
\* been moved-from or modified, whatever the capabilities of T.
C17_AsClaimed ==
    [][\A x \in Names :
         TransferFailure(x) => (vec' = vec /\ Elems(x)' = Elems(x))
      ]_vars

\* C17 (amended): the transfer moves exactly when T's move constructor cannot
\* throw or T is not copy-constructible, for the whole call.  So a transfer
\* fails only for a T whose move constructor may throw; the array keeps its
\* size, capacity and block; for a copy-constructible T no element has been
\* modified; for a move-only T the elements transferred before the failure,
\* a prefix of the array, are left moved-from and the others are unmodified.
C17_TransferFailure ==
    [][\A x \in Names :
         TransferFailure(x) =>
           /\ ~traits.nothrow_move
           /\ vec' = vec
           /\ \A k \in 0..(Capacity_(x) - 1) : Live(x, k)' = Live(x, k)
           /\ IF traits.copyable
              THEN Elems(x)' = Elems(x)
              ELSE \E j \in 0..(Size_(x) - 1) :
                     \A k \in 1..Size_(x) :
                        Elems(x)'[k] = IF k <= j THEN MovedFrom ELSE Elems(x)[k]
      ]_vars

\* C17 witness: Reserve on an array of a move-only T whose move constructor
\* may throw failed after the first element had been moved.
C17_Witness ==
    /\ last.op = "Reserve" /\ last.exc = "T" /\ nops = 1
    /\ ~traits.copyable /\ ~traits.nothrow_move
    /\ Size_(last.x) >= 2 /\ Elems(last.x)[1] = MovedFrom /\ Elems(last.x)[2] \in Values

\* C18: Emplace/Insert at a position < size < capacity on an array that
\* satisfies the data model.  If the shift to the right or the final
\* assignment of the temporary fails, the trailing slot at index size that the
\* call constructed is destroyed, size and capacity are as before the call,
\* and every slot in [0, size) still holds a constructed element.  If building
\* the temporary fails, nothing has changed.
C18_MidInsertFailure ==
    [][\A x \in Names :
         (/\ last'.op = "Emplace" /\ last'.x = x /\ last'.exc = "T"
          /\ last'.pos < Size_(x) /\ Size_(x) < Capacity_(x) /\ WellFormed(x))
         => /\ last'.stage \in {"shift", "assign"}
               => /\ ~Live(x, Size_(x))'
                  /\ vec'[x] = vec[x]
                  /\ \A k \in 0..(Size_(x) - 1) : Live(x, k)'
                  /\ last'.ub = {}
            /\ last'.stage = "temp" => (vec' = vec /\ mem' = mem)
      ]_vars

\* C18 witness: the shift failed in an insertion at the front of an array of
\* two or more elements with spare capacity.
C18_Witness ==
    /\ last.op = "Emplace" /\ last.exc = "T" /\ last.stage = "shift" /\ nops = 1
    /\ last.pos = 0 /\ Size_(last.x) >= 2 /\ Size_(last.x) < Capacity_(last.x)

\* The RawMemory objects that hold block id: the data_ of the Vectors and the
\* RawMemory objects of their own.
Owners(id) ==
    {o \in Objects : vec[o].built /\ vec[o].data_.buffer_ = id}
    \cup {o \in RawNames : raw[o].built /\ raw[o].data_.buffer_ = id}

\* The RawMemory d of an object that is built or not holds a block of its
\* capacity, or nothing.
OwnsProperly(built, d) ==
    /\ d.buffer_ # Null
       => (built /\ d.buffer_ \in Allocated /\ Len(mem[d.buffer_]) = d.capacity_)
    /\ d.buffer_ = Null => d.capacity_ = 0

\* C19: at every moment between operations, after failed growth too, every
\* allocated block is owned by exactly one RawMemory object (none is leaked,
\* none is shared), every RawMemory's buffer is null or an allocated block of
\* its capacity (none was released early), no block has been released twice,
\* the temporary of the copy assignment is gone, and the source of a
\* RawMemory move has a null buffer and capacity 0.
C19_BlockOwnership ==
    /\ \A id \in Allocated : Cardinality(Owners(id)) = 1
    /\ \A o \in Objects : OwnsProperly(vec[o].built, vec[o].data_)
    /\ \A o \in RawNames : OwnsProperly(raw[o].built, raw[o].data_)
    /\ ~vec["tmp"].built
    /\ "double_free" \notin last.ub
    /\ last.op = "Vector(move)" => vec[last.y].data_ = EmptyRawMemory
    /\ (last.op \in {"RawMemory(move)", "RawMoveAssign"} /\ last.x # last.y)
       => raw[last.y].data_ = EmptyRawMemory

\* C19 witness: a RawMemory that owned a block was move-assigned the block of
\* another (first operation of the run): the source is empty, the target owns
\* the block it was given, of another capacity than its own was.
C19_Witness ==
    /\ last.op = "RawMoveAssign" /\ last.x = "r" /\ last.y = "s" /\ nops = 1
    /\ raw["r"].data_.capacity_ = 1 /\ raw["s"].data_ = EmptyRawMemory

\* C20 (as claimed): no step of any Vector operation assigns to, moves from,
\* reads or destroys a slot that holds no constructed element, and none
\* placement-constructs into a slot that holds one.
C20_NoLifetimeFaults ==
    last.ub \cap {"assign_dead", "use_dead", "destroy_dead", "construct_over_live"} = {}

====
